---- MODULE Spec2Model ----
(***************************************************************************)
(* Model of load_sqlite.py: the per-table load pipeline of main() (schema  *)
(* lookup, row read, table definition, coercion, bulk insert with the      *)
(* row-by-row fallback), the pure function coerce(), and the two table     *)
(* definers create_table() / create_table_from_header() acting on the      *)
(* SQLite destination.                                                     *)
(*                                                                         *)
(* Text is a sequence of one-character strings, so that strip(), int()     *)
(* and float() are computed character by character.  Integers are kept as  *)
(* digit sequences (Python integers are unbounded).                        *)
(***************************************************************************)
EXTENDS Integers, Sequences, FiniteSets, Bags, TLC

(***************************************************************************)
(* Bounds of the model.                                                    *)
(***************************************************************************)
\* longest raw text enumerated as an input of coerce()
MaxLen == 3
\* most data rows in one source file
MaxRows == 2

(***************************************************************************)
(* Text helpers.                                                           *)
(***************************************************************************)
Digits == {"0", "1", "2", "3", "4", "5", "6", "7", "8", "9"}

\* The absent value (Python None) of a cell; no text is equal to it.
None == <<"None">>

RECURSIVE LStrip(_)
LStrip(s) == IF s # <<>> /\ Head(s) = " " THEN LStrip(Tail(s)) ELSE s

RECURSIVE RStrip(_)
RStrip(s) ==
    IF s # <<>> /\ s[Len(s)] = " " THEN RStrip(SubSeq(s, 1, Len(s) - 1)) ELSE s

\* str.strip() (the only whitespace of the model's alphabet is the space)
Strip(s) == RStrip(LStrip(s))

IsDigits(s) == s # <<>> /\ \A i \in 1..Len(s) : s[i] \in Digits

RECURSIVE NormDigits(_)
\* a digit sequence without its leading zeros ("007" -> "7", "00" -> "0")
NormDigits(d) ==
    IF Len(d) > 1 /\ Head(d) = "0" THEN NormDigits(Tail(d)) ELSE d

RECURSIVE StripTrailingZeros(_)
StripTrailingZeros(d) ==
    IF d # <<>> /\ d[Len(d)] = "0"
    THEN StripTrailingZeros(SubSeq(d, 1, Len(d) - 1))
    ELSE d

HasSign(s) == s # <<>> /\ Head(s) \in {"-", "+"}
Unsigned(s) == IF HasSign(s) THEN Tail(s) ELSE s
IsNeg(s) == s # <<>> /\ Head(s) = "-"

DotPositions(s) == {i \in 1..Len(s) : s[i] = "."}

(***************************************************************************)
(* Typed values: null, integer, float (an exact decimal: integer part and  *)
(* fraction digits) and text.                                              *)
(***************************************************************************)
Null == [kind |-> "null", neg |-> FALSE, ip |-> <<>>, fp |-> <<>>, txt |-> <<>>]

IntV(neg, digits) ==
    LET d == NormDigits(digits)
    IN  [kind |-> "int", neg |-> (neg /\ d # <<"0">>), ip |-> d, fp |-> <<>>,
         txt |-> <<>>]

FloatV(neg, ipart, fpart) ==
    [kind |-> "float", neg |-> neg,
     ip |-> NormDigits(IF ipart = <<>> THEN <<"0">> ELSE ipart),
     fp |-> StripTrailingZeros(fpart), txt |-> <<>>]

TextV(s) == [kind |-> "text", neg |-> FALSE, ip |-> <<>>, fp |-> <<>>, txt |-> s]

\* an exception in flight, by its class
Raised(exc) ==
    [kind |-> "raised", neg |-> FALSE, ip |-> <<>>, fp |-> <<>>, txt |-> <<exc>>]

\* the except clause naming the classes excs catches v
Caught(v, excs) == v.kind = "raised" /\ v.txt[1] \in excs

(***************************************************************************)
(* int(value) and float(value) on stripped text.  Exact on texts made of   *)
(* space, digits, ".", "-", "+" and the letters a, f, i, n (no exponent    *)
(* or underscore can be spelled with them; "inf" and "nan" can).           *)
(***************************************************************************)
\* int(s) succeeds: an optional sign and then digits only
IntParses(s) == IsDigits(Unsigned(s))

PyInt(s) ==
    IF IntParses(s) THEN IntV(IsNeg(s), Unsigned(s)) ELSE Raised("ValueError")

FloatIntPart(s) ==
    LET u == Unsigned(s)
        dots == DotPositions(u)
    IN  IF dots = {} THEN u
        ELSE LET p == CHOOSE i \in dots : TRUE IN SubSeq(u, 1, p - 1)

FloatFracPart(s) ==
    LET u == Unsigned(s)
        dots == DotPositions(u)
    IN  IF dots = {} THEN <<>>
        ELSE LET p == CHOOSE i \in dots : TRUE IN SubSeq(u, p + 1, Len(u))

\* the spellings of the floats that are not numbers
NonFinite == {<<"i", "n", "f">>, <<"n", "a", "n">>}

\* float(s) succeeds: digits, "digits.", ".digits" or "digits.digits", or
\* inf or nan, with an optional sign
FloatParses(s) ==
    LET u == Unsigned(s)
        i == FloatIntPart(s)
        f == FloatFracPart(s)
    IN  \/ u \in NonFinite
        \/ /\ Cardinality(DotPositions(u)) <= 1
           /\ i = <<>> \/ IsDigits(i)
           /\ f = <<>> \/ IsDigits(f)
           /\ i # <<>> \/ f # <<>>

PyFloat(s) ==
    IF ~FloatParses(s) THEN Raised("ValueError")
    ELSE IF Unsigned(s) \in NonFinite
    THEN [kind |-> "float", neg |-> IsNeg(s), ip |-> Unsigned(s), fp |-> <<>>,
          txt |-> <<>>]
    ELSE FloatV(IsNeg(s), FloatIntPart(s), FloatFracPart(s))

\* f == int(f), for a finite f
IsIntegral(f) == f.fp = <<>>

\* int(f): truncation toward zero; int(inf) raises OverflowError and
\* int(nan) ValueError
FloatToInt(f) ==
    IF f.kind = "raised" THEN f
    ELSE IF f.ip = <<"i", "n", "f">> THEN Raised("OverflowError")
    ELSE IF f.ip = <<"n", "a", "n">> THEN Raised("ValueError")
    ELSE IntV(f.neg, f.ip)

(***************************************************************************)
(* coerce(value, col_type)                                                 *)
(***************************************************************************)
\* try: return int(value)
\* except (ValueError, OverflowError):
\*     try: return int(float(value))
\*     except: return value
CoerceInteger(value) ==
    LET first == PyInt(value)
        second == FloatToInt(PyFloat(value))
    IN  IF ~Caught(first, {"ValueError", "OverflowError"}) THEN first
        ELSE IF second.kind = "raised" THEN TextV(value)
        ELSE second

\* coerce() for NUMERIC and REAL without the test for a decimal point
CoerceNumericNoDotTest(value) ==
    LET f == PyFloat(value)
        n == FloatToInt(f)
        body == IF f.kind = "raised" THEN f
                ELSE IF n.kind = "raised" THEN n
                ELSE IF IsIntegral(f) THEN n
                ELSE f
    IN  IF Caught(body, {"ValueError", "OverflowError"}) THEN TextV(value)
        ELSE body

\* try: f = float(value); if f == int(f) and '.' not in value: return int(f)
\*      return f
\* except (ValueError, OverflowError): return value
CoerceNumeric(value) ==
    LET f == PyFloat(value)
        n == FloatToInt(f)
        body == IF f.kind = "raised" THEN f
                ELSE IF n.kind = "raised" THEN n
                ELSE IF IsIntegral(f) /\ DotPositions(value) = {} THEN n
                ELSE f
    IN  IF Caught(body, {"ValueError", "OverflowError"}) THEN TextV(value)
        ELSE body

Coerce(value, col_type) ==
    IF value = None \/ Strip(value) = <<>> THEN Null
    ELSE LET v == Strip(value)
         IN  IF col_type = "INTEGER" THEN CoerceInteger(v)
             ELSE IF col_type \in {"NUMERIC", "REAL"} THEN CoerceNumeric(v)
             ELSE TextV(v)

(***************************************************************************)
(* TYPE_MAP.get(label, 'TEXT')                                             *)
(***************************************************************************)
TypeMap(label) ==
    CASE label = "VARCHAR" -> "TEXT"
      [] label = "NUMERIC" -> "NUMERIC"
      [] label = "INTEGER" -> "INTEGER"
      [] label = "FLOAT" -> "REAL"
      [] label = "DATETIME" -> "TEXT"
      [] label = "DATETIME (Local)" -> "TEXT"
      [] label = "DATETIME (UTC)" -> "TEXT"
      [] label = "DATETIME (Attached)" -> "TEXT"
      [] OTHER -> "TEXT"

(***************************************************************************)
(* Descriptors.  A descriptor file is absent (or empty), unparsable, or a  *)
(* schema: columns (name, type) and primaryKey entries (columnName).  A    *)
(* field the JSON object lacks is NoField.  Descriptions only become SQL   *)
(* comments and are left out.                                              *)
(***************************************************************************)
NoField == "<no field>"

Range(s) == {s[i] : i \in 1..Len(s)}

SchemaOf(columns, primaryKey) ==
    [state |-> "schema", columns |-> columns, primaryKey |-> primaryKey]

NoSchema == [state |-> "absent", columns |-> <<>>, primaryKey |-> <<>>]
BadJson == [state |-> "unparsable", columns |-> <<>>, primaryKey |-> <<>>]

Col(n, t) == [name |-> n, type |-> t]

(***************************************************************************)
(* The destination: one SQLite table per identifier.  A table has its      *)
(* ordered columns, their declared types, its primary key columns and a    *)
(* bag of stored rows (a row is the tuple of its stored values).           *)
(***************************************************************************)
NoTable ==
    [exists |-> FALSE, cols |-> <<>>, ctypes |-> <<>>, pk |-> <<>>,
     rows |-> EmptyBag]

NewTable(cols, ctypes, pk) ==
    [exists |-> TRUE, cols |-> cols, ctypes |-> ctypes, pk |-> pk,
     rows |-> EmptyBag]

\* SQLite identifiers are case-insensitive: "t" and "T" name one table.
SqlIdent(name) == IF name = "t" THEN "T" ELSE name

TableIds == {"T", "U"}

HasDuplicates(s) == \E i, j \in 1..Len(s) : i # j /\ s[i] = s[j]

\* a definer that leaves the earlier table in place
DropTableSkipped(conn, name) == conn

\* DROP TABLE IF EXISTS "name"
DropTable(conn, name) == [conn EXCEPT ![SqlIdent(name)] = NoTable]

\* SQLite accepts the column list: at least one column, no column named
\* twice, every primary key column among the columns.
CreateAccepted(cols, pk) ==
    /\ cols # <<>>
    /\ ~HasDuplicates(cols)
    /\ Range(pk) \subseteq Range(cols)

\* CREATE TABLE "name" (...): [raised, conn]; it raises when the table
\* exists or the column list is not accepted
CreateStmt(conn, name, cols, ctypes, pk) ==
    IF conn[SqlIdent(name)].exists \/ ~CreateAccepted(cols, pk)
    THEN [raised |-> TRUE, conn |-> conn]
    ELSE [raised |-> FALSE,
          conn |-> [conn EXCEPT ![SqlIdent(name)] = NewTable(cols, ctypes, pk)]]

(***************************************************************************)
(* create_table(conn, name, schema): [raised, conn, col_names]             *)
(***************************************************************************)
CreateTable(conn, name, schema) ==
    LET pk_cols == schema.primaryKey
        columns == schema.columns
        col_names == [i \in 1..Len(columns) |-> columns[i].name]
        ctypes == [i \in 1..Len(columns) |-> TypeMap(columns[i].type)]
        \* executescript: the DROP, then the CREATE
        made == CreateStmt(DropTable(conn, name), name, col_names, ctypes, pk_cols)
    IN  IF NoField \in Range(pk_cols) \/ NoField \in Range(col_names)
        THEN \* KeyError while the DDL text is built: no statement has run
             [raised |-> TRUE, conn |-> conn, col_names |-> <<>>]
        ELSE [raised |-> made.raised, conn |-> made.conn,
              col_names |-> IF made.raised THEN <<>> ELSE col_names]

(***************************************************************************)
(* create_table_from_header(conn, name, header)                            *)
(***************************************************************************)
CreateTableFromHeader(conn, name, header) ==
    LET made == CreateStmt(DropTable(conn, name), name, header,
                           [i \in 1..Len(header) |-> "TEXT"], <<>>)
    IN  [raised |-> made.raised, conn |-> made.conn,
         col_names |-> IF made.raised THEN <<>> ELSE header]

(***************************************************************************)
(* SQLite's INSERT OR REPLACE of one row of bound values.                  *)
(***************************************************************************)
DigitSeq == <<"0", "1", "2", "3", "4", "5", "6", "7", "8", "9">>
DigitVal(c) == (CHOOSE i \in 1..Len(DigitSeq) : DigitSeq[i] = c) - 1

RECURSIVE DigitsLeq(_, _)
\* a <= b for digit sequences of one length
DigitsLeq(a, b) ==
    IF a = <<>> THEN TRUE
    ELSE IF DigitVal(Head(a)) < DigitVal(Head(b)) THEN TRUE
    ELSE IF DigitVal(Head(a)) > DigitVal(Head(b)) THEN FALSE
    ELSE DigitsLeq(Tail(a), Tail(b))

\* 2^63 - 1 and 2^63, the magnitudes of the largest and smallest INTEGER
Int64MaxDigits ==
    <<"9", "2", "2", "3", "3", "7", "2", "0", "3", "6",
      "8", "5", "4", "7", "7", "5", "8", "0", "7">>
Int64MinDigits ==
    <<"9", "2", "2", "3", "3", "7", "2", "0", "3", "6",
      "8", "5", "4", "7", "7", "5", "8", "0", "8">>

\* the value can be bound: a Python int outside 64 bits raises OverflowError
Bindable(v) ==
    \/ v.kind # "int"
    \/ Len(v.ip) < Len(Int64MaxDigits)
    \/ /\ Len(v.ip) = Len(Int64MaxDigits)
       /\ DigitsLeq(v.ip, IF v.neg THEN Int64MinDigits ELSE Int64MaxDigits)

\* the value as the column stores it (type affinity): an integral float
\* becomes an integer in an INTEGER or NUMERIC column, an integer becomes a
\* float in a REAL column.  Text that the loader left as text is not numeric
\* for SQLite either, and stays text.
Affinity(v, ctype) ==
    IF ctype \in {"INTEGER", "NUMERIC"} /\ v.kind = "float" /\ v.fp = <<>>
    THEN IntV(v.neg, v.ip)
    ELSE IF ctype = "REAL" /\ v.kind = "int"
    THEN FloatV(v.neg, v.ip, <<>>)
    ELSE v

ColIndex(tbl, c) == CHOOSE i \in 1..Len(tbl.cols) : tbl.cols[i] = c

\* the table's single INTEGER primary key column is its rowid
RowidAlias(tbl) ==
    Len(tbl.pk) = 1 /\ tbl.ctypes[ColIndex(tbl, tbl.pk[1])] = "INTEGER"

KeyOf(tbl, row) == [i \in 1..Len(tbl.pk) |-> row[ColIndex(tbl, tbl.pk[i])]]

\* two rows collide on the primary key; NULL is distinct from every value
KeyConflict(tbl, r1, r2) ==
    /\ tbl.pk # <<>>
    /\ \A i \in 1..Len(tbl.pk) :
          /\ KeyOf(tbl, r1)[i].kind # "null"
          /\ KeyOf(tbl, r1)[i] = KeyOf(tbl, r2)[i]

RECURSIVE DigitsToNat(_)
DigitsToNat(d) ==
    IF d = <<>> THEN 0
    ELSE 10 * DigitsToNat(SubSeq(d, 1, Len(d) - 1)) + DigitVal(d[Len(d)])

RECURSIVE NatToDigits(_)
NatToDigits(n) ==
    IF n < 10 THEN <<DigitSeq[n + 1]>>
    ELSE NatToDigits(n \div 10) \o <<DigitSeq[(n % 10) + 1]>>

IntOfValue(v) == IF v.neg THEN 0 - DigitsToNat(v.ip) ELSE DigitsToNat(v.ip)
ValueOfInt(n) == IF n < 0 THEN IntV(TRUE, NatToDigits(0 - n)) ELSE IntV(FALSE, NatToDigits(n))

\* the rowid SQLite assigns to a NULL rowid: one more than the largest
NextRowid(tbl) ==
    LET k == ColIndex(tbl, tbl.pk[1])
        ids == {IntOfValue(r[k]) : r \in BagToSet(tbl.rows)}
    IN  IF ids = {} THEN ValueOfInt(1)
        ELSE ValueOfInt(1 + CHOOSE m \in ids : \A x \in ids : x <= m)

BagWithout(bag, drop) == [r \in (DOMAIN bag) \ drop |-> bag[r]]

\* conn.execute(insert_sql, values) on one table: [raised, tbl]
InsertOrReplace(tbl, values) ==
    LET stored0 == [i \in 1..Len(tbl.cols) |-> Affinity(values[i], tbl.ctypes[i])]
        k == ColIndex(tbl, tbl.pk[1])
        mismatch == RowidAlias(tbl) /\ stored0[k].kind \notin {"int", "null"}
        stored == IF RowidAlias(tbl) /\ stored0[k].kind = "null"
                  THEN [stored0 EXCEPT ![k] = NextRowid(tbl)]
                  ELSE stored0
        replaced == {r \in DOMAIN tbl.rows : KeyConflict(tbl, stored, r)}
    IN  IF (\E i \in 1..Len(values) : ~Bindable(values[i])) \/ mismatch
        THEN [raised |-> TRUE, tbl |-> tbl]
        ELSE [raised |-> FALSE,
              tbl |-> [tbl EXCEPT !.rows =
                          BagWithout(tbl.rows, replaced) (+) SetToBag({stored})]]

RECURSIVE ExecuteMany(_, _)
\* conn.executemany(insert_sql, batch): the rows are inserted in order and
\* the first failing row raises; the rows before it stay inserted.
\* [raised, tbl, stored]
ExecuteMany(tbl, batch) ==
    IF batch = <<>> THEN [raised |-> FALSE, tbl |-> tbl, stored |-> 0]
    ELSE LET one == InsertOrReplace(tbl, Head(batch))
         IN  IF one.raised THEN [raised |-> TRUE, tbl |-> tbl, stored |-> 0]
             ELSE LET rest == ExecuteMany(one.tbl, Tail(batch))
                  IN  [rest EXCEPT !.stored = rest.stored + 1]

(***************************************************************************)
(* The row-by-row fallback of main() (the except branch of the bulk        *)
(* insert).                                                                *)
(***************************************************************************)
\* a fallback that itemizes every failure met before the first insert
RecordsRowErrorEach(inserted, i) == inserted = 0

\* a fallback that itemizes no failure
RecordsRowErrorNever(inserted, i) == FALSE

\* if inserted == 0 and i == 0: errors.append(...)
RecordsRowError(inserted, i) == inserted = 0 /\ i = 0

RECURSIVE RowByRow(_, _, _, _, _)
\* for i, values in enumerate(batch): [tbl, inserted, recorded], recorded
\* being the number of entries the loop appends to errors
RowByRow(tbl, batch, i, inserted, recorded) ==
    IF i >= Len(batch)
    THEN [tbl |-> tbl, inserted |-> inserted, recorded |-> recorded]
    ELSE LET one == InsertOrReplace(tbl, batch[i + 1])
         IN  IF one.raised
             THEN RowByRow(tbl, batch, i + 1, inserted,
                           IF RecordsRowError(inserted, i)
                           THEN recorded + 1 ELSE recorded)
             ELSE RowByRow(one.tbl, batch, i + 1, inserted + 1, recorded)

\* a fallback that counts the table OK whatever was inserted
FallbackCountsOkAlways(inserted) == inserted >= 0

\* if inserted > 0: tables_ok += 1
FallbackCountsOk(inserted) == inserted > 0

(***************************************************************************)
(* Inputs: the source directory, the descriptors and the source files.     *)
(***************************************************************************)
\* tsv_file.replace('.tsv', '')
TableName(tsv_file) ==
    CASE tsv_file = "T.tsv" -> "T"
      [] tsv_file = "U.tsv" -> "U"
      [] tsv_file = "t.tsv" -> "t"

RECURSIVE SubListings(_)
\* the sorted listings of the directories that hold some of the files
SubListings(s) ==
    IF s = <<>> THEN {<<>>}
    ELSE LET rest == SubListings(Tail(s))
         IN  rest \cup {<<Head(s)>> \o r : r \in rest}

\* the directories of the model: two tables, or two files whose names are
\* one SQLite identifier, or fewer files
Directories ==
    SubListings(<<"T.tsv", "U.tsv">>) \cup SubListings(<<"T.tsv", "t.tsv">>)

ColumnNames == {"A", "B"}

ColsAB(ta) == <<Col("A", ta), Col("B", "VARCHAR")>>

Schemas ==
    {SchemaOf(ColsAB("INTEGER"), <<>>),
     SchemaOf(ColsAB("INTEGER"), <<"A">>),
     SchemaOf(ColsAB("INTEGER"), <<"A", "B">>),
     SchemaOf(ColsAB("INTEGER"), <<"C">>),
     SchemaOf(ColsAB("INTEGER"), <<NoField>>),
     SchemaOf(<<Col(NoField, "INTEGER")>>, <<>>)}

Descriptors == {NoSchema, BadJson} \cup Schemas

Headers == {<<"A", "B">>, <<"A", "A">>}

\* a numeral outside 64 bits: 10^20
BigNumeral ==
    <<"1", "0", "0", "0", "0", "0", "0", "0", "0", "0", "0",
      "0", "0", "0", "0", "0", "0", "0", "0", "0", "0">>

CellsOf(col) ==
    IF col = "A" THEN {<<>>, <<"3">>, BigNumeral} ELSE {<<"x">>}

\* the row mappings csv.DictReader yields under a header
RowsOf(hdr) ==
    {r \in [Range(hdr) -> UNION {CellsOf(c) : c \in ColumnNames}] :
        \A c \in Range(hdr) : r[c] \in CellsOf(c)}

RowSeqs(hdr) == UNION {[1..n -> RowsOf(hdr)] : n \in 0..MaxRows}

\* row.get(col, '')
RowGet(row, col) == IF col \in DOMAIN row THEN row[col] ELSE <<>>

\* col_types.get(col, 'TEXT'), col_types being built from the schema
ColType(sch, col) ==
    LET idx == {i \in 1..Len(sch.columns) : sch.columns[i].name = col}
    IN  IF sch.state # "schema" \/ idx = {} THEN "TEXT"
        ELSE TypeMap(sch.columns[CHOOSE i \in idx : \A j \in idx : j <= i].type)

\* the batch main() builds: every row coerced against the column list
BuildBatch(sch, cols, rs) ==
    [i \in 1..Len(rs) |->
        [j \in 1..Len(cols) |-> Coerce(RowGet(rs[i], cols[j]), ColType(sch, cols[j]))]]

(***************************************************************************)
(* State of a run of main().                                               *)
(***************************************************************************)
VARIABLES
    conn,         \* the destination: identifier -> table
    todo,         \* the files of tsv_files not yet visited
    pc,           \* the step of the per-table pipeline main() is at
    name,         \* the loop's locals
    schema,
    header,
    rows,
    schema_cols,
    batch,
    bulk_stored,  \* rows the failed executemany had stored when it raised
    tables_ok,
    total_rows,
    errors,
    steps,        \* history: the steps taken for the current table
    attempts,     \* history: one record per table visited
    coerce_in,    \* the argument and result of a single call of coerce()
    coerce_out,
    last          \* history: the last call of a table definer

runVars ==
    <<conn, todo, pc, name, schema, header, rows, schema_cols, batch,
      bulk_stored, tables_ok, total_rows, errors, steps, attempts>>

vars == <<runVars, coerce_in, coerce_out, last>>

Idle == [value |-> None, col_type |-> "TEXT", called |-> FALSE]

NoCall ==
    [mode |-> "none", name |-> "", input |-> NoSchema, hdr |-> <<>>,
     raised |-> FALSE, repeated |-> FALSE,
     before |-> [exists |-> FALSE, cols |-> <<>>, ctypes |-> <<>>, pk |-> <<>>,
                 nrows |-> 0]]

InitRun ==
    /\ conn = [t \in TableIds |-> NoTable]
    /\ pc = "SCHEMA_LOOKUP"
    /\ name = ""
    /\ schema = NoSchema
    /\ header = <<>>
    /\ rows = <<>>
    /\ schema_cols = <<>>
    /\ batch = <<>>
    /\ bulk_stored = 0
    /\ tables_ok = 0
    /\ total_rows = 0
    /\ errors = <<>>
    /\ steps = <<>>
    /\ attempts = <<>>

Init ==
    /\ InitRun
    /\ todo \in Directories
    /\ coerce_in = Idle
    /\ coerce_out = Null
    /\ last = NoCall

\* what the history keeps of one visited table
Attempt(created, nrows, stored, counted, ok, aborted) ==
    [name |-> name', created |-> created, nrows |-> nrows, stored |-> stored,
     counted |-> counted, ok |-> ok, aborted |-> aborted]

ErrorEntry(kind) ==
    [table |-> Len(attempts) + 1, name |-> name', kind |-> kind]

\* an uncaught exception leaves main()
Abort(step) ==
    /\ pc' = "ABORTED"
    /\ steps' = Append(steps, step)
    /\ attempts' = Append(attempts, Attempt(FALSE, 0, 0, 0, 0, TRUE))

\* the loop goes on to the next file
Continue(step, att) ==
    /\ pc' = "SCHEMA_LOOKUP"
    /\ steps' = Append(steps, step)
    /\ attempts' = Append(attempts, att)

Goto(step, next) ==
    /\ pc' = next
    /\ steps' = Append(steps, step)
    /\ attempts' = attempts

\* a loop body that defines the table before it reads the file
DefineAfterLookup == "TABLE_DEFINE"

\* the statement after schema = load_schema(name) is the row read
AfterSchemaLookup == "ROW_READ"

(***************************************************************************)
(* for tsv_file in tsv_files: name, tsv_path, schema = load_schema(name)   *)
(***************************************************************************)
LoadSchema ==
    /\ UNCHANGED <<coerce_in, coerce_out, last>>
    /\ pc = "SCHEMA_LOOKUP"
    /\ todo # <<>>
    /\ todo' = Tail(todo)
    /\ name' = TableName(Head(todo))
    /\ header' = <<>>
    /\ rows' = <<>>
    /\ schema_cols' = <<>>
    /\ batch' = <<>>
    /\ bulk_stored' = 0
    /\ \E d \in Descriptors :
          \/ /\ d.state = "unparsable"
             /\ schema' = NoSchema
             /\ pc' = "ABORTED"
             /\ steps' = <<"SCHEMA_LOOKUP">>
             /\ attempts' = Append(attempts, Attempt(FALSE, 0, 0, 0, 0, TRUE))
          \/ /\ d.state # "unparsable"
             /\ schema' = d
             /\ pc' = AfterSchemaLookup
             /\ steps' = <<"SCHEMA_LOOKUP">>
             /\ attempts' = attempts
    /\ UNCHANGED <<conn, tables_ok, total_rows, errors>>

(***************************************************************************)
(* header, rows = load_tsv_rows(tsv_path); the empty-header check; the     *)
(* col_types loop over the schema's columns                                *)
(***************************************************************************)
LoadTsvRows ==
    /\ UNCHANGED <<coerce_in, coerce_out, last>>
    /\ pc = "ROW_READ"
    /\ name' = name
    /\ \/ \* open() raises: the file cannot be read
          /\ Abort("ROW_READ")
          /\ UNCHANGED <<header, rows, errors>>
       \/ \* an empty file: no header, no rows
          /\ header' = <<>>
          /\ rows' = <<>>
          /\ errors' = Append(errors, ErrorEntry("empty TSV"))
          /\ Continue("ROW_READ", Attempt(FALSE, 0, 0, 0, 0, FALSE))
       \/ \E h \in Headers : \E rs \in RowSeqs(h) :
             /\ header' = h
             /\ rows' = rs
             /\ errors' = errors
             /\ IF /\ schema.state = "schema"
                   /\ \E i \in 1..Len(schema.columns) :
                         schema.columns[i].name = NoField
                THEN \* col['name'] raises KeyError outside any try
                     Abort("ROW_READ")
                ELSE Goto("ROW_READ", "TABLE_DEFINE")
    /\ UNCHANGED <<conn, todo, schema, schema_cols, batch, bulk_stored,
                   tables_ok, total_rows>>

(***************************************************************************)
(* try: create_table / create_table_from_header; except: record and        *)
(* continue; if not rows: tables_ok += 1; continue                         *)
(***************************************************************************)
DefineTable ==
    /\ UNCHANGED <<coerce_in, coerce_out, last>>
    /\ pc = "TABLE_DEFINE"
    /\ name' = name
    /\ LET r == IF schema.state = "schema"
                THEN CreateTable(conn, name, schema)
                ELSE CreateTableFromHeader(conn, name, header)
       IN  /\ conn' = r.conn
           /\ IF r.raised
              THEN /\ errors' = Append(errors, ErrorEntry("CREATE failed"))
                   /\ Continue("TABLE_DEFINE", Attempt(FALSE, Len(rows), 0, 0, 0, FALSE))
                   /\ UNCHANGED <<schema_cols, tables_ok>>
              ELSE /\ schema_cols' = r.col_names
                   /\ errors' = errors
                   /\ IF rows = <<>>
                      THEN /\ tables_ok' = tables_ok + 1
                           /\ Continue("TABLE_DEFINE", Attempt(TRUE, 0, 0, 0, 1, FALSE))
                      ELSE /\ tables_ok' = tables_ok
                           /\ Goto("TABLE_DEFINE", "COERCE")
    /\ UNCHANGED <<todo, schema, header, rows, batch, bulk_stored, total_rows>>

(***************************************************************************)
(* the batch: every value of every row coerced                             *)
(***************************************************************************)
CoerceRows ==
    /\ UNCHANGED <<coerce_in, coerce_out, last>>
    /\ pc = "COERCE"
    /\ name' = name
    /\ batch' = BuildBatch(schema, schema_cols, rows)
    /\ Goto("COERCE", "BULK_INSERT")
    /\ UNCHANGED <<conn, todo, schema, header, rows, schema_cols, bulk_stored,
                   tables_ok, total_rows, errors>>

(***************************************************************************)
(* try: conn.executemany(insert_sql, batch); total_rows += len(batch);     *)
(* tables_ok += 1                                                          *)
(***************************************************************************)
BulkInsert ==
    /\ UNCHANGED <<coerce_in, coerce_out, last>>
    /\ pc = "BULK_INSERT"
    /\ name' = name
    /\ LET r == ExecuteMany(conn[SqlIdent(name)], batch)
       IN  /\ conn' = [conn EXCEPT ![SqlIdent(name)] = r.tbl]
           /\ bulk_stored' = r.stored
           /\ IF r.raised
              THEN /\ Goto("BULK_INSERT", "FALLBACK_ROW_INSERT")
                   /\ UNCHANGED <<tables_ok, total_rows>>
              ELSE /\ total_rows' = total_rows + Len(batch)
                   /\ tables_ok' = tables_ok + 1
                   /\ Continue("BULK_INSERT",
                               Attempt(TRUE, Len(rows), r.stored, Len(batch), 1, FALSE))
    /\ UNCHANGED <<todo, schema, header, rows, schema_cols, batch, errors>>

(***************************************************************************)
(* except: the rows one at a time; total_rows += inserted; if inserted >   *)
(* 0: tables_ok += 1                                                       *)
(***************************************************************************)
FallbackRowInsert ==
    /\ UNCHANGED <<coerce_in, coerce_out, last>>
    /\ pc = "FALLBACK_ROW_INSERT"
    /\ name' = name
    /\ LET r == RowByRow(conn[SqlIdent(name)], batch, 0, 0, 0)
           ok == IF FallbackCountsOk(r.inserted) THEN 1 ELSE 0
       IN  /\ conn' = [conn EXCEPT ![SqlIdent(name)] = r.tbl]
           /\ errors' = errors \o [k \in 1..r.recorded |-> ErrorEntry("INSERT row 0")]
           /\ total_rows' = total_rows + r.inserted
           /\ tables_ok' = tables_ok + ok
           /\ Continue("FALLBACK_ROW_INSERT",
                       Attempt(TRUE, Len(rows), bulk_stored + r.inserted,
                               r.inserted, ok, FALSE))
    /\ UNCHANGED <<todo, schema, header, rows, schema_cols, batch, bulk_stored>>

(***************************************************************************)
(* the loop has ended: conn.commit() and the report                        *)
(***************************************************************************)
Finish ==
    /\ UNCHANGED <<coerce_in, coerce_out, last>>
    /\ pc = "SCHEMA_LOOKUP"
    /\ todo = <<>>
    /\ pc' = "DONE"
    /\ UNCHANGED <<conn, todo, name, schema, header, rows, schema_cols, batch,
                   bulk_stored, tables_ok, total_rows, errors, steps, attempts>>

Next ==
    \/ LoadSchema
    \/ LoadTsvRows
    \/ DefineTable
    \/ CoerceRows
    \/ BulkInsert
    \/ FallbackRowInsert
    \/ Finish

Spec == Init /\ [][Next]_vars

(***************************************************************************)
(* A single call of coerce(value, col_type) on an enumerated argument.     *)
(***************************************************************************)
CoerceAlphabet == {" ", "0", "3", "5", ".", "-", "a", "i", "n", "f"}

Texts(n) == UNION {[1..k -> CoerceAlphabet] : k \in 0..n}

Doc42 == <<" ", " ", "4", "2", " ", " ">>
Doc30 == <<"3", ".", "0">>
Doc350 == <<"3", ".", "5", "0">>
DocAbc == <<"a", "b", "c">>

CoerceValues == Texts(MaxLen) \cup {None, Doc42, Doc30, Doc350, DocAbc}

TypeCategories == {"INTEGER", "NUMERIC", "REAL", "TEXT"}

InitCoerce ==
    /\ InitRun
    /\ todo = <<>>
    /\ last = NoCall
    /\ coerce_in \in [value : CoerceValues, col_type : TypeCategories,
                      called : {FALSE}]
    /\ coerce_out = Null

CallCoerce ==
    /\ ~coerce_in.called
    /\ coerce_out' = Coerce(coerce_in.value, coerce_in.col_type)
    /\ coerce_in' = [coerce_in EXCEPT !.called = TRUE]
    /\ UNCHANGED <<runVars, last>>

NextCoerce == CallCoerce

SpecCoerce == InitCoerce /\ [][NextCoerce]_vars

(***************************************************************************)
(* The table definers and the insert statement called on one connection,   *)
(* in any order.                                                           *)
(***************************************************************************)
DefinerNames == {"T", "t"}

Structure(tbl) ==
    [exists |-> tbl.exists, cols |-> tbl.cols, ctypes |-> tbl.ctypes, pk |-> tbl.pk,
     nrows |-> BagCardinality(tbl.rows)]

Call(mode, n, sch, hdr, raised) ==
    [mode |-> mode, name |-> n, input |-> sch, hdr |-> hdr, raised |-> raised,
     repeated |-> (last.mode = mode /\ last.name = n /\ last.input = sch
                   /\ last.hdr = hdr),
     before |-> Structure(conn[SqlIdent(n)])]

InitCreate ==
    /\ InitRun
    /\ todo = <<>>
    /\ coerce_in = Idle
    /\ coerce_out = Null
    /\ last = NoCall

CallCreateTable ==
    /\ \E n \in DefinerNames : \E sch \in Schemas :
          LET r == CreateTable(conn, n, sch)
          IN  /\ conn' = r.conn
              /\ last' = Call("schema", n, sch, <<>>, r.raised)
    /\ UNCHANGED <<todo, pc, name, schema, header, rows, schema_cols, batch,
                   bulk_stored, tables_ok, total_rows, errors, steps, attempts,
                   coerce_in, coerce_out>>

CallCreateTableFromHeader ==
    /\ \E n \in DefinerNames : \E h \in Headers :
          LET r == CreateTableFromHeader(conn, n, h)
          IN  /\ conn' = r.conn
              /\ last' = Call("header", n, NoSchema, h, r.raised)
    /\ UNCHANGED <<todo, pc, name, schema, header, rows, schema_cols, batch,
                   bulk_stored, tables_ok, total_rows, errors, steps, attempts,
                   coerce_in, coerce_out>>

InsertValues == {Null, IntV(FALSE, <<"3">>), TextV(<<"a">>), IntV(FALSE, BigNumeral)}

CallInsert ==
    /\ \E n \in DefinerNames : \E a \in InsertValues :
          LET tbl == conn[SqlIdent(n)]
              values == [i \in 1..Len(tbl.cols) |-> IF i = 1 THEN a ELSE TextV(<<"x">>)]
              r == InsertOrReplace(tbl, values)
          IN  /\ tbl.exists
              /\ BagCardinality(tbl.rows) < MaxRows
              /\ conn' = [conn EXCEPT ![SqlIdent(n)] = r.tbl]
              /\ last' = Call("insert", n, NoSchema, <<>>, r.raised)
    /\ UNCHANGED <<todo, pc, name, schema, header, rows, schema_cols, batch,
                   bulk_stored, tables_ok, total_rows, errors, steps, attempts,
                   coerce_in, coerce_out>>

NextCreate ==
    \/ CallCreateTable
    \/ CallCreateTableFromHeader
    \/ CallInsert

SpecCreate == InitCreate /\ [][NextCreate]_vars

(***************************************************************************)
(* Properties.                                                             *)
(***************************************************************************)
LastStep == IF steps = <<>> THEN "none" ELSE steps[Len(steps)]

\* main() is between two tables or past the loop: the table whose steps are
\* in steps has been left
TableLeft == pc \in {"SCHEMA_LOOKUP", "DONE"} /\ steps # <<>>

ThisAttempt == attempts[Len(attempts)]

ThisTable == conn[SqlIdent(name)]

\* the entries of the error list for the t-th table visited
EntriesOf(t) == {k \in 1..Len(errors) : errors[k].table = t}

EntriesOfKind(t, kind) == {k \in EntriesOf(t) : errors[k].kind = kind}

IsPrefix(s, t) == Len(s) <= Len(t) /\ \A i \in 1..Len(s) : s[i] = t[i]

RECURSIVE SumOk(_)
SumOk(as) == IF as = <<>> THEN 0 ELSE Head(as).ok + SumOk(Tail(as))

RECURSIVE SumCounted(_)
SumCounted(as) == IF as = <<>> THEN 0 ELSE Head(as).counted + SumCounted(Tail(as))

\* the rows of the batch that the insert statement rejects
RejectedRows == {i \in 1..Len(batch) : InsertOrReplace(ThisTable, batch[i]).raised}

\* C1: a failure while loading one table never aborts the run (it is
\* recorded for that table and the later tables are still processed).
C1_FailureNeverAbortsRun == pc # "ABORTED"

\* C2, as claimed: when the fallback has run and a row failed in it, the
\* error list holds exactly one insert entry for the table, whatever the
\* position of the first failing row.
C2_FirstFailureItemizedAtAnyPosition ==
    (TableLeft /\ LastStep = "FALLBACK_ROW_INSERT" /\ RejectedRows # {})
        => Cardinality(EntriesOfKind(Len(attempts), "INSERT row 0")) = 1

\* C2, amended: when the fallback has run, the error list holds one insert
\* entry for the table if the row at index 0 failed and none otherwise;
\* the failures of the other rows are only counted.
C2_OnlyRowZeroItemized ==
    (TableLeft /\ LastStep = "FALLBACK_ROW_INSERT")
        => /\ Cardinality(EntriesOfKind(Len(attempts), "INSERT row 0"))
                = (IF 1 \in RejectedRows THEN 1 ELSE 0)
           /\ ThisAttempt.counted = Len(batch) - Cardinality(RejectedRows)

\* the fallback has run on a batch whose row 0 and a later row both failed
C2_Witness ==
    /\ TableLeft
    /\ LastStep = "FALLBACK_ROW_INSERT"
    /\ 1 \in RejectedRows
    /\ Cardinality(RejectedRows) >= 2
    /\ Cardinality(EntriesOfKind(Len(attempts), "INSERT row 0")) = 1

\* C3: tables-OK is incremented at most once per table visited, exactly
\* when a row of the table was inserted or the table has no rows and was
\* created; so tables-OK never exceeds the tables visited and total rows is
\* the sum of the per-table inserted counts.
C3_TablesOkAndTotalRows ==
    /\ \A t \in 1..Len(attempts) :
          /\ attempts[t].ok \in {0, 1}
          /\ attempts[t].ok = 1
                <=> \/ attempts[t].stored >= 1
                    \/ attempts[t].nrows = 0 /\ attempts[t].created
    /\ tables_ok = SumOk(attempts)
    /\ tables_ok <= Len(attempts)
    /\ total_rows = SumCounted(attempts)

\* two tables visited: one counted OK by the fallback with a row rejected,
\* one created and not counted OK
C3_Witness ==
    /\ \E t \in 1..Len(attempts) :
          attempts[t].ok = 1 /\ attempts[t].counted < attempts[t].nrows
    /\ \E t \in 1..Len(attempts) :
          attempts[t].ok = 0 /\ attempts[t].created /\ attempts[t].nrows > 0
    /\ tables_ok = 1
    /\ total_rows >= 1

\* C4: after the load of a table with primary key columns, no two stored
\* rows have identical values in all primary key columns.
C4_NoTwoRowsWithOneKey ==
    \A id \in TableIds :
        LET tbl == conn[id]
        IN  (TableLeft /\ tbl.exists /\ tbl.pk # <<>>)
                => \A r1 \in DOMAIN tbl.rows :
                      /\ tbl.rows[r1] = 1
                      /\ \A r2 \in DOMAIN tbl.rows :
                            KeyOf(tbl, r1) = KeyOf(tbl, r2) => r1 = r2

\* the structure a descriptor defines
DefinedBySchema(sch) ==
    [exists |-> TRUE,
     cols |-> [i \in 1..Len(sch.columns) |-> sch.columns[i].name],
     ctypes |-> [i \in 1..Len(sch.columns) |-> TypeMap(sch.columns[i].type)],
     pk |-> sch.primaryKey, nrows |-> 0]

\* the structure a header defines
DefinedByHeader(hdr) ==
    [exists |-> TRUE, cols |-> hdr, ctypes |-> [i \in 1..Len(hdr) |-> "TEXT"],
     pk |-> <<>>, nrows |-> 0]

\* the descriptor or header defines a table SQLite accepts
Definable(d) == NoField \notin Range(d.cols) \cup Range(d.pk) /\ CreateAccepted(d.cols, d.pk)

\* C5: a table definer called for a name, whatever table of that name
\* exists, succeeds and leaves a table with exactly the structure the
\* descriptor (schema mode) or header (fallback mode) defines and no row of
\* the earlier table; called twice in sequence with one input it leaves the
\* structure it left the first time.
C5_DropBeforeCreate ==
    LET now == Structure(conn[SqlIdent(last.name)])
    IN  /\ (last.mode = "schema" /\ Definable(DefinedBySchema(last.input)))
              => ~last.raised /\ now = DefinedBySchema(last.input)
        /\ (last.mode = "header" /\ Definable(DefinedByHeader(last.hdr)))
              => ~last.raised /\ now = DefinedByHeader(last.hdr)
        /\ (last.mode \in {"schema", "header"} /\ last.repeated /\ ~last.raised)
              => now = last.before

\* a definer has replaced a table that had another key and held rows
C5_Witness ==
    /\ last.mode \in {"schema", "header"}
    /\ ~last.raised
    /\ last.before.exists
    /\ last.before.nrows > 0
    /\ last.before.pk # conn[SqlIdent(last.name)].pk
    /\ BagCardinality(conn[SqlIdent(last.name)].rows) = 0

\* C6: when the creation of a table fails, then after that table's step no
\* table of that name exists, the table is not counted OK, adds nothing to
\* total rows, has one create error recorded and no insert was attempted.
C6_FailedCreateLeavesNoTable ==
    (TableLeft /\ LastStep = "TABLE_DEFINE" /\ ~ThisAttempt.created)
        => /\ ~ThisTable.exists
           /\ ThisAttempt.ok = 0
           /\ ThisAttempt.counted = 0
           /\ ThisAttempt.stored = 0
           /\ Cardinality(EntriesOfKind(Len(attempts), "CREATE failed")) = 1

CoerceOf(text, col_type) == [value |-> text, col_type |-> col_type, called |-> TRUE]

\* the documented results of coerce() other than that of "3.0"
DocumentedResults ==
    /\ coerce_out.kind \in {"null", "int", "float", "text"}
    /\ (coerce_in.value = None \/ Strip(coerce_in.value) = <<>>) => coerce_out = Null
    /\ coerce_in = CoerceOf(Doc42, "INTEGER") => coerce_out = IntV(FALSE, <<"4", "2">>)
    /\ coerce_in = CoerceOf(Doc350, "NUMERIC")
          => coerce_out = FloatV(FALSE, <<"3">>, <<"5">>)
    /\ coerce_in = CoerceOf(DocAbc, "INTEGER") => coerce_out = TextV(DocAbc)

\* C7, as claimed: coerce never raises and returns the documented values,
\* the integer 3 for coerce("3.0", NUMERIC) among them.
C7_DocumentedValues ==
    coerce_in.called
        => /\ DocumentedResults
           /\ coerce_in = CoerceOf(Doc30, "NUMERIC") => coerce_out = IntV(FALSE, <<"3">>)

\* C7, amended: coerce never raises and returns the documented values,
\* except that coerce("3.0", NUMERIC) is the float 3.0 (the text holds a
\* decimal point); coerce("3", NUMERIC) is the integer 3.
C7_DocumentedValuesAmended ==
    coerce_in.called
        => /\ DocumentedResults
           /\ coerce_in = CoerceOf(Doc30, "NUMERIC")
                 => coerce_out = FloatV(FALSE, <<"3">>, <<>>)
           /\ coerce_in = CoerceOf(<<"3">>, "NUMERIC")
                 => coerce_out = IntV(FALSE, <<"3">>)

\* coerce("3.0", NUMERIC) has been called
C7_Witness == coerce_in = CoerceOf(Doc30, "NUMERIC") /\ coerce_out.kind = "float"

\* the value a row of the batch is stored as in a table without a key
StoredForm(tbl, values) ==
    [i \in 1..Len(tbl.cols) |-> Affinity(values[i], tbl.ctypes[i])]

\* C8: after the load of a table without a primary key, by the bulk insert
\* or by the fallback, the table holds each source row at most once and as
\* many rows as were added to total rows for it.
C8_NoKeyRowsStoredOnce ==
    (/\ TableLeft
     /\ LastStep \in {"BULK_INSERT", "FALLBACK_ROW_INSERT"}
     /\ ThisTable.pk = <<>>)
        => /\ BagCardinality(ThisTable.rows) = ThisAttempt.counted
           /\ \A r \in DOMAIN ThisTable.rows :
                 ThisTable.rows[r]
                    <= Cardinality({i \in 1..Len(batch) : StoredForm(ThisTable, batch[i]) = r})

PipelineAsClaimed ==
    <<"SCHEMA_LOOKUP", "TABLE_DEFINE", "ROW_READ", "COERCE", "BULK_INSERT",
      "FALLBACK_ROW_INSERT">>

PipelineOfCode ==
    <<"SCHEMA_LOOKUP", "ROW_READ", "TABLE_DEFINE", "COERCE", "BULK_INSERT",
      "FALLBACK_ROW_INSERT">>

\* the table was left by the skip-on-failure exit
Skipped == TableLeft /\ ~ThisAttempt.created /\ ~ThisAttempt.aborted

SkipOnlyFromEarlySteps ==
    Skipped => LastStep \in {"SCHEMA_LOOKUP", "TABLE_DEFINE", "ROW_READ"}

\* C9, as claimed: the steps of a table are taken in the order schema
\* lookup, table definition, row read, coercion, bulk insert, and the
\* skip-on-failure exit is taken only from the first three.
C9_DefineBeforeRead == IsPrefix(steps, PipelineAsClaimed) /\ SkipOnlyFromEarlySteps

\* C9, amended: the steps of a table are taken in the order schema lookup,
\* row read, table definition, coercion, bulk insert (the source file is
\* read before the table is dropped and created), and the skip-on-failure
\* exit is taken only from schema lookup, table definition or row read.
C9_ReadBeforeDefine ==
    /\ IsPrefix(steps, PipelineOfCode)
    /\ SkipOnlyFromEarlySteps
    /\ (pc = "ROW_READ" /\ attempts = <<>>) => ~ThisTable.exists

\* a table has gone through every step, the fallback included
C9_Witness == TableLeft /\ steps = PipelineOfCode

\* C10: while the run has not aborted, the error list holds at most one
\* entry per table visited, exactly one for every table not counted OK, and
\* a table without an entry was counted OK.
C10_OneEntryPerFailedTable ==
    pc # "ABORTED"
        => /\ \A k \in 1..Len(errors) : errors[k].table \in 1..Len(attempts)
           /\ \A t \in 1..Len(attempts) :
                 /\ Cardinality(EntriesOf(t)) <= 1
                 /\ attempts[t].ok = 0 => Cardinality(EntriesOf(t)) = 1
                 /\ Cardinality(EntriesOf(t)) = 0 => attempts[t].ok = 1

\* two tables visited: every row of one rejected by the fallback, the other
\* counted OK by the fallback with its first row itemized
C10_Witness ==
    /\ pc # "ABORTED"
    /\ \E t \in 1..Len(attempts) :
          /\ attempts[t].ok = 0
          /\ attempts[t].created
          /\ Cardinality(EntriesOfKind(t, "INSERT row 0")) = 1
    /\ \E t \in 1..Len(attempts) :
          /\ attempts[t].ok = 1
          /\ Cardinality(EntriesOf(t)) = 1

====
